---- MODULE Spec2Model ----
(***************************************************************************)
(* ORBIT data library (wisdem/orbit/core/library.py): the key-to-path      *)
(* table, the two-tier file lookup, the configuration walker, the YAML     *)
(* export/extract pair and the initialisation of the DATA_LIBRARY          *)
(* environment variable.                                                   *)
(*                                                                         *)
(* Strings are TLA+ strings; Python values are tagged records; a YAML file *)
(* is the node tree the emitter writes and the composer reads back.        *)
(***************************************************************************)
EXTENDS Integers, Sequences, FiniteSets, TLC

\* ------------------------------------------------------------------ bounds
\* longest string scalar handed to export_library_specs
MaxStrLen == 3
\* longest list / tuple handed to export_library_specs
MaxSeqLen == 2
\* most fields of a configuration record handed to extract_library_data
MaxFields == 2
\* most initialize_library calls in one run
MaxCalls == 3
\* most answers typed at the overwrite prompt
MaxAnswers == 3

\* ----------------------------------------------------------------- strings
Char(s, i) == SubSeq(s, i, i)

\* Python's `el in key` for two strings
Contains(el, key) ==
    \E i \in 1..(Len(key) - Len(el) + 1) : SubSeq(key, i, i + Len(el) - 1) = el

StartsWith(s, p) == Len(p) <= Len(s) /\ SubSeq(s, 1, Len(p)) = p

Digit == {"0", "1", "2", "3", "4", "5", "6", "7", "8", "9"}
DigitU == Digit \cup {"_"}
Whitespace == {" "}

RECURSIVE SpanEnd(_, _, _)
\* the first position at or after i whose character is not in C
SpanEnd(s, i, C) ==
    IF i <= Len(s) /\ Char(s, i) \in C THEN SpanEnd(s, i + 1, C) ELSE i

DigitVal(c) ==
    CASE c = "0" -> 0 [] c = "1" -> 1 [] c = "2" -> 2 [] c = "3" -> 3
      [] c = "4" -> 4 [] c = "5" -> 5 [] c = "6" -> 6 [] c = "7" -> 7
      [] c = "8" -> 8 [] c = "9" -> 9

DigitChar(d) == Char("0123456789", d + 1)

RECURSIVE StrToNat(_)
StrToNat(s) ==
    IF Len(s) = 0 THEN 0
    ELSE 10 * StrToNat(SubSeq(s, 1, Len(s) - 1)) + DigitVal(Char(s, Len(s)))

RECURSIVE NatToStr(_)
NatToStr(n) == IF n < 10 THEN DigitChar(n) ELSE NatToStr(n \div 10) \o DigitChar(n % 10)

RECURSIVE Remove(_, _)
\* str.replace(c, "")
Remove(s, c) ==
    IF Len(s) = 0 THEN ""
    ELSE (IF Char(s, 1) = c THEN "" ELSE Char(s, 1)) \o Remove(SubSeq(s, 2, Len(s)), c)

RECURSIVE Zeros(_)
Zeros(n) == IF n <= 0 THEN "" ELSE "0" \o Zeros(n - 1)

\* ----------------------------------------------------------- Python values
Str(s) == [t |-> "str", s |-> s]
IntV(n) == [t |-> "int", n |-> n]
BoolV(b) == [t |-> "bool", b |-> b]
NoneV == [t |-> "none"]
ListV(items) == [t |-> "list", items |-> items]
TupleV(items) == [t |-> "tuple", items |-> items]
\* a dict is its items in insertion order, keys pairwise different
DictV(pairs) == [t |-> "dict", pairs |-> pairs]

RECURSIVE NormFloat(_, _)
\* a float is m * 10^e with m not divisible by ten
NormFloat(m, e) ==
    IF m = 0 THEN [t |-> "float", m |-> 0, e |-> 0]
    ELSE IF m % 10 = 0 THEN NormFloat(m \div 10, e + 1)
    ELSE [t |-> "float", m |-> m, e |-> e]
FloatV(m, e) == NormFloat(m, e)
FloatSpecial(name) == [t |-> "float", special |-> name]

IsStr(v) == v.t = "str"
IsDict(v) == v.t = "dict"

HasKey(pairs, k) == \E i \in 1..Len(pairs) : pairs[i][1] = k
Lookup(pairs, k) == pairs[CHOOSE i \in 1..Len(pairs) : pairs[i][1] = k][2]
\* an assignment that adds an item even when the key is there
DictSet_Append(pairs, k, v) == Append(pairs, <<k, v>>)

\* d[k] = v on the item list: an existing key keeps its place
DictSet(pairs, k, v) ==
    IF HasKey(pairs, k)
    THEN [i \in 1..Len(pairs) |-> IF pairs[i][1] = k THEN <<k, v>> ELSE pairs[i]]
    ELSE Append(pairs, <<k, v>>)

RECURSIVE PyEq(_, _)
\* Python's == on the values above: dicts compare without regard to order
PyEq(a, b) ==
    IF a.t # b.t THEN FALSE
    ELSE IF a.t \in {"list", "tuple"} THEN
        /\ Len(a.items) = Len(b.items)
        /\ \A i \in 1..Len(a.items) : PyEq(a.items[i], b.items[i])
    ELSE IF a.t = "dict" THEN
        /\ Len(a.pairs) = Len(b.pairs)
        /\ \A i \in 1..Len(a.pairs) :
              \E j \in 1..Len(b.pairs) :
                 /\ PyEq(a.pairs[i][1], b.pairs[j][1])
                 /\ PyEq(a.pairs[i][2], b.pairs[j][2])
    ELSE a = b

\* -------------------------------------------------- YAML implicit resolvers
SkipSign(s, i) == IF i <= Len(s) /\ Char(s, i) \in {"-", "+"} THEN i + 1 ELSE i

\* [0-9][0-9_]* from i: the position after it, 0 when it does not match
DecimalHead(s, i) ==
    IF i <= Len(s) /\ Char(s, i) \in Digit THEN SpanEnd(s, i + 1, DigitU) ELSE 0

\* [eE][-+][0-9]+ from i (the sign optional when signOptional): the position
\* after it, 0 when it does not match
ExponentEnd(s, i, signOptional) ==
    IF ~(i <= Len(s) /\ Char(s, i) \in {"e", "E"}) THEN 0
    ELSE LET j == SkipSign(s, i + 1)
             k == SpanEnd(s, j, Digit)
         IN  IF (j = i + 1 /\ ~signOptional) \/ k = j THEN 0 ELSE k

\* the tail (exponent)?$ from i
OptExponentToEnd(s, i, signOptional) ==
    i = Len(s) + 1 \/ ExponentEnd(s, i, signOptional) = Len(s) + 1

RECURSIVE SexagesimalEnd(_, _)
\* (?::[0-5]?[0-9])+ from i: the position after the last group, 0 when none
SexagesimalEnd(s, i) ==
    IF ~(i <= Len(s) /\ Char(s, i) = ":") THEN 0
    ELSE LET two == i + 2 <= Len(s) /\ Char(s, i + 1) \in {"0", "1", "2", "3", "4", "5"}
                        /\ Char(s, i + 2) \in Digit
             one == i + 1 <= Len(s) /\ Char(s, i + 1) \in Digit
             j == IF two THEN i + 3 ELSE IF one THEN i + 2 ELSE 0
         IN  IF j = 0 THEN 0
             ELSE IF j <= Len(s) /\ Char(s, j) = ":" THEN SexagesimalEnd(s, j)
             ELSE j

\* [-+]?[0-9][0-9_]*(?::[0-5]?[0-9])+\.[0-9_]*$
SexagesimalFloat(s) ==
    LET b == DecimalHead(s, SkipSign(s, 1))
        c == IF b = 0 THEN 0 ELSE SexagesimalEnd(s, b)
    IN  /\ c # 0 /\ c <= Len(s) /\ Char(s, c) = "."
        /\ SpanEnd(s, c + 1, DigitU) = Len(s) + 1

\* [-+]?\.(?:inf|Inf|INF) | \.(?:nan|NaN|NAN)
InfOrNan(s) ==
    \/ SubSeq(s, SkipSign(s, 1), Len(s)) \in {".inf", ".Inf", ".INF"}
    \/ s \in {".nan", ".NaN", ".NAN"}

\* the float pattern of yaml.resolver.Resolver, the resolver yaml.Dumper uses
StdFloatRe(s) ==
    \/ LET b == DecimalHead(s, SkipSign(s, 1))
       IN  /\ b # 0 /\ b <= Len(s) /\ Char(s, b) = "."
           /\ OptExponentToEnd(s, SpanEnd(s, b + 1, DigitU), FALSE)
    \/ /\ Len(s) >= 2 /\ Char(s, 1) = "." /\ Char(s, 2) \in Digit
       /\ OptExponentToEnd(s, SpanEnd(s, 3, DigitU), FALSE)
    \/ SexagesimalFloat(s)
    \/ InfOrNan(s)

\* the float pattern the module adds to its loader
CustomFloatRe(s) ==
    \/ LET b == DecimalHead(s, SkipSign(s, 1))
       IN  /\ b # 0 /\ b <= Len(s) /\ Char(s, b) = "."
           /\ OptExponentToEnd(s, SpanEnd(s, b + 1, DigitU), TRUE)
    \/ LET b == DecimalHead(s, SkipSign(s, 1))
       IN  b # 0 /\ ExponentEnd(s, b, TRUE) = Len(s) + 1
    \/ /\ Len(s) >= 2 /\ Char(s, 1) = "." /\ SpanEnd(s, 2, DigitU) > 2
       /\ OptExponentToEnd(s, SpanEnd(s, 2, DigitU), FALSE)
    \/ SexagesimalFloat(s)
    \/ InfOrNan(s)

\* the int pattern of yaml.resolver.Resolver
StdIntRe(s) ==
    LET a == SkipSign(s, 1)
        r == SubSeq(s, a, Len(s))
    IN  \/ /\ StartsWith(r, "0b") /\ Len(r) > 2
           /\ SpanEnd(r, 3, {"0", "1", "_"}) = Len(r) + 1
        \/ /\ StartsWith(r, "0") /\ Len(r) > 1
           /\ SpanEnd(r, 2, {"0", "1", "2", "3", "4", "5", "6", "7", "_"}) = Len(r) + 1
        \/ r = "0"
        \/ /\ Len(r) >= 1 /\ Char(r, 1) \in Digit \ {"0"}
           /\ SpanEnd(r, 2, DigitU) = Len(r) + 1
        \/ /\ StartsWith(r, "0x") /\ Len(r) > 2
           /\ SpanEnd(r, 3, DigitU \cup {"a", "b", "c", "d", "e", "f",
                                          "A", "B", "C", "D", "E", "F"}) = Len(r) + 1
        \/ /\ Len(r) >= 1 /\ Char(r, 1) \in Digit \ {"0"}
           /\ SexagesimalEnd(r, SpanEnd(r, 2, DigitU)) = Len(r) + 1

StdBoolRe(s) ==
    s \in {"yes", "Yes", "YES", "no", "No", "NO", "true", "True", "TRUE",
           "false", "False", "FALSE", "on", "On", "ON", "off", "Off", "OFF"}

StdNullRe(s) == s \in {"~", "null", "Null", "NULL", ""}

\* [0-9]{4}-[0-9]{2}-[0-9]{2}, the date form of the timestamp pattern
StdDateRe(s) ==
    /\ Len(s) = 10 /\ Char(s, 5) = "-" /\ Char(s, 8) = "-"
    /\ \A i \in {1, 2, 3, 4, 6, 7, 9, 10} : Char(s, i) \in Digit

\* Resolver.resolve on a plain scalar: the first pattern that matches, in the
\* order the patterns were added
StdImplicitTag(s) ==
    IF StdBoolRe(s) THEN "bool"
    ELSE IF StdFloatRe(s) THEN "float"
    ELSE IF StdIntRe(s) THEN "int"
    ELSE IF s = "<<" THEN "merge"
    ELSE IF StdNullRe(s) THEN "null"
    ELSE IF StdDateRe(s) THEN "timestamp"
    ELSE IF s = "=" THEN "value"
    ELSE "str"

\* the loader's resolve: the module's float pattern comes after the inherited ones
LoaderImplicitTag(s) ==
    IF StdImplicitTag(s) # "str" THEN StdImplicitTag(s)
    ELSE IF Len(s) > 0 /\ Char(s, 1) \in Digit \cup {"-", "+", "."} /\ CustomFloatRe(s)
    THEN "float"
    ELSE "str"

\* ------------------------------------------------ YAML scalar construction
UpperLetters == "ABCDEFGHIJKLMNOPQRSTUVWXYZ"
LowerLetters == "abcdefghijklmnopqrstuvwxyz"

LowerChar(c) ==
    IF \E i \in 1..26 : Char(UpperLetters, i) = c
    THEN Char(LowerLetters, CHOOSE i \in 1..26 : Char(UpperLetters, i) = c)
    ELSE c

RECURSIVE Lower(_)
\* str.lower()
Lower(s) == IF Len(s) = 0 THEN "" ELSE LowerChar(Char(s, 1)) \o Lower(SubSeq(s, 2, Len(s)))

RECURSIVE Replace(_, _, _)
\* str.replace(c, d) for a one-character c
Replace(s, c, d) ==
    IF Len(s) = 0 THEN ""
    ELSE (IF Char(s, 1) = c THEN d ELSE Char(s, 1)) \o Replace(SubSeq(s, 2, Len(s)), c, d)

\* the position of the first (last) c in s, 0 when there is none
IndexOf(s, c) ==
    IF \E i \in 1..Len(s) : Char(s, i) = c
    THEN CHOOSE i \in 1..Len(s) : Char(s, i) = c /\ \A j \in 1..(i - 1) : Char(s, j) # c
    ELSE 0
LastIndexOf(s, c) ==
    IF \E i \in 1..Len(s) : Char(s, i) = c
    THEN CHOOSE i \in 1..Len(s) : Char(s, i) = c /\ \A j \in (i + 1)..Len(s) : Char(s, j) # c
    ELSE 0

RECURSIVE Pow(_, _)
Pow(b, n) == IF n <= 0 THEN 1 ELSE b * Pow(b, n - 1)

HexVal(c) ==
    IF c \in Digit THEN DigitVal(c)
    ELSE 9 + (CHOOSE i \in 1..6 : Char("abcdef", i) = LowerChar(c))

RECURSIVE StrToNatBase(_, _)
\* int(s, base)
StrToNatBase(s, base) ==
    IF Len(s) = 0 THEN 0
    ELSE base * StrToNatBase(SubSeq(s, 1, Len(s) - 1), base) + HexVal(Char(s, Len(s)))

PyError(type) == [t |-> "error", type |-> type]
IsError(v) == v.t = "error"

RECURSIVE SexagesimalNat(_)
\* the base-60 value of a:b:c
SexagesimalNat(v) ==
    LET i == LastIndexOf(v, ":")
    IN  IF i = 0 THEN StrToNat(v)
        ELSE 60 * SexagesimalNat(SubSeq(v, 1, i - 1)) + StrToNat(SubSeq(v, i + 1, Len(v)))

\* SafeConstructor.construct_yaml_int
ConstructInt(text) ==
    LET u == Remove(text, "_")
        sign == IF Char(u, 1) = "-" THEN -1 ELSE 1
        v == SubSeq(u, SkipSign(u, 1), Len(u))
    IN  IF v = "0" THEN IntV(0)
        ELSE IF StartsWith(v, "0b") THEN IntV(sign * StrToNatBase(SubSeq(v, 3, Len(v)), 2))
        ELSE IF StartsWith(v, "0x") THEN IntV(sign * StrToNatBase(SubSeq(v, 3, Len(v)), 16))
        ELSE IF Char(v, 1) = "0" THEN IntV(sign * StrToNatBase(v, 8))
        ELSE IF IndexOf(v, ":") # 0 THEN IntV(sign * SexagesimalNat(v))
        ELSE IntV(sign * StrToNat(v))

\* Python's float(v) on an unsigned decimal literal: digits, an optional
\* fraction, an optional exponent; ValueError without a mantissa digit
DecimalFloat(sign, v) ==
    LET p == IF IndexOf(v, "e") = 0 THEN Len(v) + 1 ELSE IndexOf(v, "e")
        mant == SubSeq(v, 1, p - 1)
        expo == SubSeq(v, p + 1, Len(v))
        dot == IndexOf(mant, ".")
        ip == IF dot = 0 THEN mant ELSE SubSeq(mant, 1, dot - 1)
        fp == IF dot = 0 THEN "" ELSE SubSeq(mant, dot + 1, Len(mant))
        x == IF Len(expo) = 0 THEN 0
             ELSE (IF Char(expo, 1) = "-" THEN -1 ELSE 1)
                  * StrToNat(SubSeq(expo, SkipSign(expo, 1), Len(expo)))
    IN  IF Len(ip) + Len(fp) = 0 THEN PyError("ValueError")
        ELSE FloatV(sign * StrToNat(ip \o fp), x - Len(fp))

\* SafeConstructor.construct_yaml_float
ConstructFloat(text) ==
    LET u == Lower(Remove(text, "_"))
        sign == IF Char(u, 1) = "-" THEN -1 ELSE 1
        v == SubSeq(u, SkipSign(u, 1), Len(u))
        c == LastIndexOf(v, ":")
        last == DecimalFloat(1, SubSeq(v, c + 1, Len(v)))
    IN  IF v = ".inf" THEN FloatSpecial(IF sign = 1 THEN "inf" ELSE "-inf")
        ELSE IF v = ".nan" THEN FloatSpecial("nan")
        ELSE IF c # 0 THEN
            IF IsError(last) THEN last
            ELSE FloatV(sign * (60 * SexagesimalNat(SubSeq(v, 1, c - 1)) * Pow(10, -last.e)
                                + last.m), last.e)
        ELSE DecimalFloat(sign, v)

\* the constructor SafeLoader picks for a scalar of the given tag
ConstructScalar(tag, text) ==
    CASE tag = "str" -> Str(text)
      [] tag = "int" -> ConstructInt(text)
      [] tag = "float" -> ConstructFloat(text)
      [] tag = "bool" -> BoolV(Lower(text) \in {"yes", "true", "on"})
      [] tag = "null" -> NoneV
      [] tag = "timestamp" -> [t |-> "date", s |-> text]
      [] OTHER -> PyError("ConstructorError")

\* ------------------------------------------------- YAML scalar representation
\* repr(float)
FloatRepr(f) ==
    LET neg == f.m < 0
        ds == NatToStr(IF neg THEN -f.m ELSE f.m)
        n == Len(ds)
        x == f.e + n - 1
        body ==
            IF f.m = 0 THEN "0.0"
            ELSE IF x < -4 \/ x >= 16 THEN
                Char(ds, 1) \o (IF n > 1 THEN "." \o SubSeq(ds, 2, n) ELSE "")
                \o "e" \o (IF x < 0 THEN "-" ELSE "+")
                \o (IF (IF x < 0 THEN -x ELSE x) < 10 THEN "0" ELSE "")
                \o NatToStr(IF x < 0 THEN -x ELSE x)
            ELSE IF f.e >= 0 THEN ds \o Zeros(f.e) \o ".0"
            ELSE IF n > -f.e THEN SubSeq(ds, 1, n + f.e) \o "." \o SubSeq(ds, n + f.e + 1, n)
            ELSE "0." \o Zeros(-f.e - n) \o ds
    IN  (IF neg THEN "-" ELSE "") \o body

\* Representer.represent_float: ".0" is put before a bare exponent
FloatText(f) ==
    IF "special" \in DOMAIN f
    THEN (CASE f.special = "inf" -> ".inf" [] f.special = "-inf" -> "-.inf" [] OTHER -> ".nan")
    ELSE LET value == FloatRepr(f)
             e == IndexOf(value, "e")
         IN  IF IndexOf(value, ".") = 0 /\ e # 0
             THEN SubSeq(value, 1, e - 1) \o ".0" \o SubSeq(value, e, Len(value))
             ELSE value

IntText(n) == IF n < 0 THEN "-" \o NatToStr(-n) ELSE NatToStr(n)

FollowedByWhitespace(s, i) == i >= Len(s) \/ Char(s, i + 1) \in Whitespace

\* Emitter.analyze_scalar: allow_block_plain for a one-line printable scalar
\* (of the leading indicators, the double quote and the backquote are left out:
\* no string of the model starts with one)
AllowBlockPlain(s) ==
    LET blockIndicators ==
            \/ StartsWith(s, "---") \/ StartsWith(s, "...")
            \/ Char(s, 1) \in {"#", ",", "[", "]", "{", "}", "&", "*", "!", "|", ">",
                               "'", "%", "@"}
            \/ Char(s, 1) \in {"?", ":", "-"} /\ FollowedByWhitespace(s, 1)
            \/ \E i \in 2..Len(s) :
                  \/ Char(s, i) = ":" /\ FollowedByWhitespace(s, i)
                  \/ Char(s, i) = "#" /\ Char(s, i - 1) \in Whitespace
    IN  Len(s) = 0 \/ (/\ ~blockIndicators
                       /\ Char(s, 1) \notin Whitespace
                       /\ Char(s, Len(s)) \notin Whitespace)

\* Serializer + Emitter.choose_scalar_style for a scalar the representer tagged
\* `tag`: plain when the dumper's resolver reads the text back as that tag and
\* the text may stand unquoted, single-quoted otherwise (the tag is written out
\* when a quoted scalar is not a string)
ScalarNode(tag, text, isKey) ==
    LET plain == /\ StdImplicitTag(text) = tag
                 /\ AllowBlockPlain(text)
                 /\ ~(isKey /\ Len(text) = 0)
    IN  [k |-> "scalar", plain |-> plain, text |-> text,
         etag |-> IF plain \/ tag = "str" THEN "" ELSE tag]

SeqNode(etag, items) == [k |-> "seq", etag |-> etag, items |-> items]
MapNode(pairs) == [k |-> "map", pairs |-> pairs]

RECURSIVE Dump(_, _)
\* yaml.dump(data, f, Dumper=Dumper, default_flow_style=False): the document
\* written for `data` (the order of a mapping's keys is not kept in the model;
\* a dict compares without it)
Dump(v, isKey) ==
    CASE v.t = "str" -> ScalarNode("str", v.s, isKey)
      [] v.t = "int" -> ScalarNode("int", IntText(v.n), isKey)
      [] v.t = "float" -> ScalarNode("float", FloatText(v), isKey)
      [] v.t = "bool" -> ScalarNode("bool", IF v.b THEN "true" ELSE "false", isKey)
      [] v.t = "none" -> ScalarNode("null", "null", isKey)
      [] v.t = "list" -> SeqNode("", [i \in 1..Len(v.items) |-> Dump(v.items[i], FALSE)])
      [] v.t = "tuple" ->
            SeqNode("python/tuple", [i \in 1..Len(v.items) |-> Dump(v.items[i], FALSE)])
      [] v.t = "dict" ->
            MapNode([i \in 1..Len(v.pairs) |->
                        <<Dump(v.pairs[i][1], TRUE), Dump(v.pairs[i][2], FALSE)>>])

\* CustomSafeLoader.construct_python_tuple
construct_python_tuple(items) == TupleV(items)

FirstError(items) ==
    items[CHOOSE i \in 1..Len(items) :
             IsError(items[i]) /\ \A j \in 1..(i - 1) : ~IsError(items[j])]

RECURSIVE BuildDict(_, _)
\* SafeConstructor.construct_mapping: the pairs assigned in document order
BuildDict(pairs, n) ==
    IF n = 0 THEN <<>> ELSE DictSet(BuildDict(pairs, n - 1), pairs[n][1], pairs[n][2])

RECURSIVE Load(_)
\* yaml.load(f, Loader=loader): the value constructed from a document
Load(node) ==
    IF node.k = "scalar" THEN
        ConstructScalar(IF node.etag # "" THEN node.etag
                        ELSE IF node.plain THEN LoaderImplicitTag(node.text)
                        ELSE "str",
                        node.text)
    ELSE IF node.k = "seq" THEN
        LET items == [i \in 1..Len(node.items) |-> Load(node.items[i])]
        IN  IF \E i \in 1..Len(items) : IsError(items[i]) THEN FirstError(items)
            ELSE IF node.etag = "python/tuple" THEN construct_python_tuple(items)
            ELSE ListV(items)
    ELSE
        LET ks == [i \in 1..Len(node.pairs) |-> Load(node.pairs[i][1])]
            vs == [i \in 1..Len(node.pairs) |-> Load(node.pairs[i][2])]
        IN  IF \E i \in 1..Len(ks) : IsError(ks[i]) \/ IsError(vs[i])
            THEN FirstError([i \in 1..(2 * Len(ks)) |->
                                IF i % 2 = 1 THEN ks[(i + 1) \div 2] ELSE vs[i \div 2]])
            ELSE DictV(BuildDict([i \in 1..Len(ks) |-> <<ks[i], vs[i]>>], Len(ks)))

\* ------------------------------------------------------------ str() / repr()
RECURSIVE PyRepr(_)
RECURSIVE JoinRepr(_, _)
\* ", ".join(repr(x) for x in items[i:])
JoinRepr(items, i) ==
    IF i > Len(items) THEN ""
    ELSE PyRepr(items[i]) \o (IF i < Len(items) THEN ", " ELSE "") \o JoinRepr(items, i + 1)

RECURSIVE JoinItems(_, _)
JoinItems(pairs, i) ==
    IF i > Len(pairs) THEN ""
    ELSE PyRepr(pairs[i][1]) \o ": " \o PyRepr(pairs[i][2])
         \o (IF i < Len(pairs) THEN ", " ELSE "") \o JoinItems(pairs, i + 1)

PyRepr(v) ==
    CASE v.t = "str" -> "'" \o v.s \o "'"
      [] v.t = "int" -> IntText(v.n)
      [] v.t = "float" -> IF "special" \in DOMAIN v THEN v.special ELSE FloatRepr(v)
      [] v.t = "bool" -> IF v.b THEN "True" ELSE "False"
      [] v.t = "none" -> "None"
      [] v.t = "list" -> "[" \o JoinRepr(v.items, 1) \o "]"
      [] v.t = "tuple" ->
            "(" \o JoinRepr(v.items, 1) \o (IF Len(v.items) = 1 THEN "," ELSE "") \o ")"
      [] v.t = "dict" -> "{" \o JoinItems(v.pairs, 1) \o "}"
      [] OTHER -> "<object>"

\* what an f-string puts for {v}
PyStr(v) == IF IsStr(v) THEN v.s ELSE PyRepr(v)

\* ------------------------------------------------------------- the library
PATH_LIBRARY ==
    [k \in {"defaults"} |-> "defaults"]
    @@ [k \in {"array_cable_install_vessel", "array_cable_bury_vessel",
               "array_cable_trench_vessel", "export_cable_install_vessel",
               "export_cable_bury_vessel", "export_cable_trench_vessel",
               "oss_install_vessel", "spi_vessel", "trench_dig_vessel", "feeder",
               "mooring_install_vessel", "wtiv", "towing_vessel", "support_vessel",
               "ahts_vessel"} |-> "vessels"]
    @@ [k \in {"cables", "array_system", "array_system_design", "export_system",
               "export_system_design"} |-> "cables"]
    @@ ("config" :> "project/config") @@ ("plant" :> "project/plant")
    @@ ("port" :> "project/ports") @@ ("project_development" :> "project/development")
    @@ ("site" :> "project/site")
    @@ [k \in {"monopile", "monopile_design", "scour_protection", "scour_design",
               "transition_piece", "offshore_substation_substructure",
               "offshore_substation_topside"} |-> "substructures"]
    @@ ("turbine" :> "turbines")

\* ROOT / "library"
default_library == "/repo/library"

\* os.environ without the variable
Unset == "<unset>"

\* pathlib's a / b
JoinPath(a, b) == a \o "/" \o b

\* Path.suffix of a path whose last component has a dot past its first character
Suffix(path) ==
    LET slash == LastIndexOf(path, "/")
        dot == LastIndexOf(path, ".")
    IN  IF dot > slash + 1 THEN SubSeq(path, dot, Len(path)) ELSE ""

\* the classes LibraryItemNotFoundError is caught by: an exception of the
\* package's own, no kind of KeyError
LibraryItemNotFoundErrorBases == {"LibraryItemNotFoundError", "Exception"}

\* the exception classes: each with the classes an `except` clause catches it by
ExceptionBases ==
    [KeyError |-> {"KeyError", "LookupError", "Exception"},
     ValueError |-> {"ValueError", "Exception"},
     TypeError |-> {"TypeError", "Exception"},
     ConstructorError |-> {"ConstructorError", "YAMLError", "Exception"},
     EmptyDataError |-> {"EmptyDataError", "ValueError", "Exception"},
     EOFError |-> {"EOFError", "Exception"},
     FileNotFoundError |-> {"FileNotFoundError", "OSError", "Exception"},
     LibraryItemNotFoundError |-> LibraryItemNotFoundErrorBases]

\* a handler that lets every exception through
Catches_Nothing(cls, e) == FALSE

\* `except cls` catches e
Catches(cls, e) == cls \in ExceptionBases[e.type]

KeyError(key) == [t |-> "error", type |-> "KeyError", key |-> key]
LibraryItemNotFoundError(sub_dir, name) ==
    [t |-> "error", type |-> "LibraryItemNotFoundError", dir |-> sub_dir, name |-> name]

\* Path.is_file()
is_file(files, path) == path \in DOMAIN files

\* pd.read_csv(...).dropna(how="all").dropna(how="all", axis=1), the column
\* names lowered and their spaces replaced: a csv file is its lines of cells,
\* the first line the header; an empty cell is ""
ReadCsv(doc) ==
    LET header == doc.lines[1]
        rows == SelectSeq(Tail(doc.lines), LAMBDA r : \E j \in 1..Len(r) : r[j] # "")
        keep == {j \in 1..Len(header) : \E i \in 1..Len(rows) : rows[i][j] # ""}
        RECURSIVE Pick(_, _)
        Pick(r, j) ==
            IF j > Len(r) THEN <<>>
            ELSE (IF j \in keep THEN <<r[j]>> ELSE <<>>) \o Pick(r, j + 1)
    IN  IF Len(doc.lines) = 0 THEN PyError("EmptyDataError")
        ELSE [t |-> "DataFrame",
              columns |-> [j \in 1..Len(Pick(header, 1)) |->
                              Lower(Replace(Pick(header, 1)[j], " ", "_"))],
              rows |-> [i \in 1..Len(rows) |-> Pick(rows[i], 1)]]

_extract_file(files, filepath) ==
    LET ftype == Suffix(filepath)
    IN  IF ftype \in {".yaml", ".yml"} THEN Load(files[filepath])
        ELSE IF ftype = ".csv" THEN ReadCsv(files[filepath])
        ELSE PyError("TypeError")

\* the lookup that tries the default library before the configured one
extract_library_specs_DefaultFirst(env, files, key, filename, file_type) ==
    LET name == PyStr(filename) \o "." \o file_type
    IN  IF ~(IsStr(key) /\ key.s \in DOMAIN PATH_LIBRARY) THEN KeyError(PyStr(key))
        ELSE IF env = Unset THEN KeyError("DATA_LIBRARY")
        ELSE LET path == PATH_LIBRARY[key.s]
                 first == JoinPath(JoinPath(default_library, path), name)
                 second == JoinPath(JoinPath(env, path), name)
             IN  IF is_file(files, first) THEN _extract_file(files, first)
                 ELSE IF is_file(files, second) THEN _extract_file(files, second)
                 ELSE LibraryItemNotFoundError(path, name)

\* extract_library_specs(key, filename, file_type): the value returned, or the
\* exception raised
extract_library_specs(env, files, key, filename, file_type) ==
    LET name == PyStr(filename) \o "." \o file_type
    IN  IF ~(IsStr(key) /\ key.s \in DOMAIN PATH_LIBRARY) THEN KeyError(PyStr(key))
        ELSE IF env = Unset THEN KeyError("DATA_LIBRARY")
        ELSE LET path == PATH_LIBRARY[key.s]
                 filepath == JoinPath(JoinPath(env, path), name)
                 fallback == JoinPath(JoinPath(default_library, path), name)
             IN  IF is_file(files, filepath) THEN _extract_file(files, filepath)
                 ELSE IF env # default_library /\ is_file(files, fallback)
                 THEN _extract_file(files, fallback)
                 ELSE LibraryItemNotFoundError(path, name)

NoError == [t |-> "ok"]

RECURSIVE extract_library_data(_, _, _, _)
RECURSIVE WalkFrom(_, _, _, _, _)

\* the loop of extract_library_data from field i on: the record as the loop
\* leaves it, the exception that ended it (NoError when it ran to the end) and
\* the number of fields the loop got to
WalkFrom(env, files, pairs, i, additional_keys) ==
    IF i > Len(pairs) THEN [config |-> DictV(pairs), raised |-> NoError, reached |-> Len(pairs)]
    ELSE
      LET key == pairs[i][1]
          val == pairs[i][2]
          recurse == /\ IsDict(val)
                     /\ \E j \in 1..Len(additional_keys) : Contains(additional_keys[j], key.s)
          sub == extract_library_data(env, files, val, <<>>)
          \* the nested dict is walked in place: the record holds it however the
          \* nested walk ends
          walked == IF recurse THEN DictSet(pairs, key, sub.config) ELSE pairs
          arg == IF recurse THEN sub.config ELSE val
          got == extract_library_specs(env, files, key, arg, "yaml")
      IN  IF recurse /\ sub.raised # NoError
          THEN [config |-> DictV(walked), raised |-> sub.raised, reached |-> i]
          ELSE IF ~recurse /\ ~IsStr(val)
          THEN WalkFrom(env, files, pairs, i + 1, additional_keys)
          ELSE IF IsError(got) THEN
              IF Catches("KeyError", got)
              THEN WalkFrom(env, files, walked, i + 1, additional_keys)
              ELSE [config |-> DictV(walked), raised |-> got, reached |-> i]
          ELSE WalkFrom(env, files, DictSet(walked, key, got), i + 1, additional_keys)

\* extract_library_data(config, additional_keys); None and [] are both <<>>
extract_library_data(env, files, config, additional_keys) ==
    IF env = Unset THEN [config |-> config, raised |-> NoError, reached |-> 0]
    ELSE WalkFrom(env, files, config.pairs, 1, additional_keys)

\* ------------------------------------------------------------------ export
RECURSIVE _get_yes_no_response(_, _)
\* _get_yes_no_response with the answers typed at the prompt, from answer i on:
\* what it returns (or EOFError when the input ends) and the answers it read
_get_yes_no_response(answers, i) ==
    IF i > Len(answers) THEN [ret |-> FALSE, raised |-> PyError("EOFError"), read |-> i - 1]
    ELSE LET response == Lower(answers[i])
             again == _get_yes_no_response(answers, i + 1)
         IN  IF response \notin {"y", "n"}
             THEN [ret |-> response = "y", raised |-> again.raised, read |-> again.read]
             ELSE [ret |-> response = "y", raised |-> NoError, read |-> i]

\* csv.writer(f).writerows(data) for a list of lists
CsvDoc(data) ==
    [k |-> "csv",
     lines |-> [i \in 1..Len(data.items) |->
                   [j \in 1..Len(data.items[i].items) |-> PyStr(data.items[i].items[j])]]]

NotAsked == [ret |-> FALSE, raised |-> NoError, read |-> 0]

\* an export that writes whatever the answer at the prompt
export_library_specs_WriteAnyway(env, files, directories, key, filename, data, file_ext, answers) ==
    LET name == filename \o "." \o file_ext
        data_path == JoinPath(JoinPath(env, PATH_LIBRARY[key]), name)
    IN  IF key \notin DOMAIN PATH_LIBRARY
        THEN [files |-> files, raised |-> KeyError(key), written |-> FALSE, asked |-> NotAsked]
        ELSE IF env = Unset
        THEN [files |-> files, raised |-> KeyError("DATA_LIBRARY"), written |-> FALSE,
              asked |-> NotAsked]
        ELSE [files |-> [p \in DOMAIN files \cup {data_path} |->
                            IF p = data_path THEN Dump(data, FALSE) ELSE files[p]],
              raised |-> NoError, written |-> TRUE,
              asked |-> IF is_file(files, data_path) THEN _get_yes_no_response(answers, 1)
                        ELSE NotAsked]

\* export_library_specs(key, filename, data, file_ext) with the answers typed at
\* the prompt: the files it leaves, the exception it raises, whether it wrote,
\* and what the prompt returned
export_library_specs(env, files, directories, key, filename, data, file_ext, answers) ==
    LET name == filename \o "." \o file_ext
        data_path == JoinPath(JoinPath(env, PATH_LIBRARY[key]), name)
        asked == IF is_file(files, data_path) THEN _get_yes_no_response(answers, 1)
                 ELSE NotAsked
        isList == data.t = "list" /\ \A i \in 1..Len(data.items) : data.items[i].t = "list"
        \* open("w") empties the file before anything is written to it
        opened == [p \in DOMAIN files \cup {data_path} |->
                      IF p = data_path THEN [k |-> "csv", lines |-> <<>>] ELSE files[p]]
        write(doc) == [p \in DOMAIN files \cup {data_path} |->
                          IF p = data_path THEN doc ELSE files[p]]
    IN  IF key \notin DOMAIN PATH_LIBRARY
        THEN [files |-> files, raised |-> KeyError(key), written |-> FALSE, asked |-> NotAsked]
        ELSE IF env = Unset
        THEN [files |-> files, raised |-> KeyError("DATA_LIBRARY"), written |-> FALSE,
              asked |-> NotAsked]
        ELSE IF asked.raised # NoError
        THEN [files |-> files, raised |-> asked.raised, written |-> FALSE, asked |-> asked]
        ELSE IF is_file(files, data_path) /\ ~asked.ret
        THEN [files |-> files, raised |-> NoError, written |-> FALSE, asked |-> asked]
        ELSE IF file_ext \in {"yaml", "csv"}
                /\ JoinPath(env, PATH_LIBRARY[key]) \notin directories
        THEN [files |-> files, raised |-> PyError("FileNotFoundError"), written |-> FALSE,
              asked |-> asked]
        ELSE IF file_ext = "yaml"
        THEN [files |-> write(Dump(data, FALSE)), raised |-> NoError, written |-> TRUE,
              asked |-> asked]
        ELSE IF file_ext = "csv" /\ isList
        THEN [files |-> write(CsvDoc(data)), raised |-> NoError, written |-> TRUE,
              asked |-> asked]
        ELSE IF file_ext = "csv"
        THEN [files |-> opened, raised |-> PyError("TypeError"), written |-> FALSE,
              asked |-> asked]
        ELSE [files |-> files, raised |-> NoError, written |-> FALSE, asked |-> asked]

\* ---------------------------------------------------------- initialisation
\* the working directory, and a symbolic link to the user's library
Cwd == "/data"
LinkPath == "/link"
\* initialize_library(None)
NoPath == "<None>"

\* Path(p).resolve(): absolute, symbolic links followed
Resolve(p) ==
    IF p = LinkPath THEN "/data/lib"
    ELSE IF StartsWith(p, "/") THEN p
    ELSE JoinPath(Cwd, p)

\* an initialisation that does not look for the variable first
initialize_library_NoGuard(env, directories, library_path) ==
    LET path == Resolve(IF library_path = NoPath THEN default_library ELSE library_path)
    IN  IF path \notin directories THEN [env |-> env, raised |-> PyError("ValueError")]
        ELSE [env |-> path, raised |-> NoError]

\* initialize_library(library_path): the variable and the exception raised
initialize_library(env, directories, library_path) ==
    LET path == Resolve(IF library_path = NoPath THEN default_library ELSE library_path)
    IN  IF env # Unset THEN [env |-> env, raised |-> NoError]
        ELSE IF path \notin directories THEN [env |-> env, raised |-> PyError("ValueError")]
        ELSE [env |-> path, raised |-> NoError]

\* ---------------------------------------------------------------- the state
\* DATA_LIBRARY  os.environ["DATA_LIBRARY"], Unset when the variable is missing
\* fs            the files on disk: path |-> document
\* dirs          the directories on disk
\* pc            the call the run is at
\* call          the arguments of the last call
\* out           what the last call returned, raised and left behind
\* prev          the call before it, with its outcome
VARIABLES DATA_LIBRARY, fs, dirs, pc, call, out, prev

vars == <<DATA_LIBRARY, fs, dirs, pc, call, out, prev>>

None == [op |-> "none"]

\* a library given by the user
UserLibrary == "/data/lib"
LibraryRoots == {UserLibrary, default_library}

\* the library item the records refer to, and a name no library holds
ItemName == "example_wtiv"
MissingName == "missing"

\* what the files of the two libraries hold
FileContent(root, subdir) ==
    CASE root = UserLibrary /\ subdir = "vessels" ->
            DictV(<< <<Str("max_waveheight"), FloatV(3, 0)>> >>)
      [] root = default_library /\ subdir = "vessels" ->
            DictV(<< <<Str("max_waveheight"), FloatV(25, -1)>> >>)
      [] root = UserLibrary /\ subdir = "project/config" ->
            DictV(<< <<Str("wtiv"), Str(ItemName)>>, <<Str("duration"), IntV(30)>> >>)
      [] root = default_library /\ subdir = "project/config" -> Str(ItemName)

FileSlots == LibraryRoots \X {"vessels", "project/config"}
SlotPath(slot) == JoinPath(JoinPath(slot[1], slot[2]), ItemName \o ".yaml")

\* the disks: any of the four files present or absent
FileSystems ==
    {[p \in {SlotPath(sl) : sl \in S} |->
         LET sl == CHOOSE x \in S : SlotPath(x) = p
         IN  Dump(FileContent(sl[1], sl[2]), FALSE)] : S \in SUBSET FileSlots}

\* the fields of the records handed to the walker: a field name is a key of
\* the table or not, contains "config" or not; a value is the name of a library
\* item, a name no library holds, a number or a nested record
NestedRecord == DictV(<< <<Str("wtiv"), Str(ItemName)>>, <<Str("duration"), IntV(30)>> >>)
Fields ==
    {<<Str("wtiv"), Str(ItemName)>>, <<Str("wtiv"), Str(MissingName)>>,
     <<Str("wtiv"), IntV(30)>>,
     <<Str("config"), Str(ItemName)>>, <<Str("config"), NestedRecord>>,
     <<Str("site_config"), Str(ItemName)>>, <<Str("site_config"), NestedRecord>>,
     <<Str("plant"), Str(MissingName)>>, <<Str("plant"), NestedRecord>>,
     <<Str("duration"), Str(ItemName)>>, <<Str("duration"), IntV(30)>>}

RECURSIVE RecordsOfLen(_)
RecordsOfLen(n) ==
    IF n = 0 THEN {<<>>}
    ELSE {Append(r, f) : r \in RecordsOfLen(n - 1), f \in Fields}

Records ==
    {DictV(r) : r \in {x \in UNION {RecordsOfLen(n) : n \in 0..MaxFields} :
                          \A i, j \in 1..Len(x) : i # j => x[i][1] # x[j][1]}}

AdditionalKeys == {<<>>, <<"config">>}

WalkInit ==
    /\ DATA_LIBRARY \in {Unset} \cup LibraryRoots
    /\ fs \in FileSystems
    /\ dirs = LibraryRoots
    /\ pc = "idle"
    /\ call = None
    /\ out = None
    /\ prev = None

\* a direct call of extract_library_specs
ExtractLibrarySpecs(key, filename, file_type) ==
    /\ pc = "idle"
    /\ pc' = "specs"
    /\ call' = [op |-> "extract_library_specs", key |-> key, filename |-> filename,
                file_type |-> file_type]
    /\ out' = [ret |-> extract_library_specs(DATA_LIBRARY, fs, Str(key), Str(filename),
                                             file_type)]
    /\ UNCHANGED <<DATA_LIBRARY, fs, dirs, prev>>

\* a call of extract_library_data on a record
ExtractLibraryData(config, additional_keys) ==
    /\ pc = "idle"
    /\ pc' = "pass1"
    /\ call' = [op |-> "extract_library_data", config |-> config,
                additional_keys |-> additional_keys]
    /\ out' = extract_library_data(DATA_LIBRARY, fs, config, additional_keys)
    /\ UNCHANGED <<DATA_LIBRARY, fs, dirs, prev>>

\* a second call of extract_library_data, on the record the first one returned
ExtractLibraryDataAgain ==
    /\ pc = "pass1"
    /\ out.raised = NoError
    /\ pc' = "pass2"
    /\ prev' = [call |-> call, out |-> out]
    /\ call' = [call EXCEPT !.config = out.config]
    /\ out' = extract_library_data(DATA_LIBRARY, fs, out.config, call.additional_keys)
    /\ UNCHANGED <<DATA_LIBRARY, fs, dirs>>

WalkNext ==
    \/ pc = "idle" /\ \E key \in {"wtiv", "feeder", "config", "plant", "duration"},
                          filename \in {ItemName, MissingName},
                          file_type \in {"yaml", "csv"} :
                            ExtractLibrarySpecs(key, filename, file_type)
    \/ pc = "idle" /\ \E config \in Records, additional_keys \in AdditionalKeys :
                            ExtractLibraryData(config, additional_keys)
    \/ ExtractLibraryDataAgain

SpecWalk == WalkInit /\ [][WalkNext]_vars

\* ------------------------------------------------- claims about the lookup
InTable(key) == IsStr(key) /\ key.s \in DOMAIN PATH_LIBRARY
ItemPath(root, key, name) == root \o "/" \o PATH_LIBRARY[key] \o "/" \o name
\* the root whose file the two-tier search settles on, Unset when neither has it
RootHolding(key, name) ==
    IF ItemPath(DATA_LIBRARY, key, name) \in DOMAIN fs THEN DATA_LIBRARY
    ELSE IF DATA_LIBRARY # default_library /\ ItemPath(default_library, key, name) \in DOMAIN fs
    THEN default_library
    ELSE Unset

\* C1: with the library root set and a key of the table, extract_library_specs
\* returns the content of the active root's file when it exists (whatever the
\* default root holds), else the content of the default root's file when the two
\* roots differ and it exists, else it raises LibraryItemNotFoundError carrying
\* the subdirectory and the file name.
C1_TwoTierLookup ==
    (pc = "specs" /\ DATA_LIBRARY # Unset /\ call.key \in DOMAIN PATH_LIBRARY) =>
        LET name == call.filename \o "." \o call.file_type
            root == RootHolding(call.key, name)
        IN  IF root # Unset
            THEN PyEq(out.ret, FileContent(root, PATH_LIBRARY[call.key]))
            ELSE /\ IsError(out.ret)
                 /\ out.ret.type = "LibraryItemNotFoundError"
                 /\ out.ret.dir = PATH_LIBRARY[call.key]
                 /\ out.ret.name = name

\* the fallback happened: the user's library lacks the vessel, the default
\* library has it, and the call returned the default library's content
C1_Witness ==
    /\ pc = "specs" /\ DATA_LIBRARY = UserLibrary
    /\ call.key = "wtiv" /\ call.filename = ItemName /\ call.file_type = "yaml"
    /\ ItemPath(UserLibrary, "wtiv", ItemName \o ".yaml") \notin DOMAIN fs
    /\ ItemPath(default_library, "wtiv", ItemName \o ".yaml") \in DOMAIN fs
    /\ out.ret = DictV(<< <<Str("max_waveheight"), FloatV(25, -1)>> >>)

\* ------------------------------------------------- claims about the walker
Walked == pc \in {"pass1", "pass2"} /\ DATA_LIBRARY # Unset
NFields == Len(call.config.pairs)
\* the exception that ended the walk came from field i
RaisedAt(i) == out.raised # NoError /\ out.reached = i
Matched(key) ==
    \E j \in 1..Len(call.additional_keys) : Contains(call.additional_keys[j], key.s)

\* C2: a string field whose name is a key of the table and whose file is in
\* neither root keeps its string, raises nothing to the caller, and the walk goes
\* on to the next field.
C2_NotFoundLeftAlone ==
    Walked =>
        \A i \in 1..NFields :
            LET f == call.config.pairs[i]
            IN  (/\ IsStr(f[2]) /\ InTable(f[1])
                 /\ RootHolding(f[1].s, f[2].s \o ".yaml") = Unset
                 /\ out.reached >= i) =>
                    /\ out.config.pairs[i] = f
                    /\ ~RaisedAt(i)
                    /\ (i < NFields => out.reached > i)

\* C3: a string field whose name is not a key of the table keeps its string,
\* raises nothing to the caller, and the walk goes on to the next field: when the
\* call raises, it is not at this field, and when it returns, every field was
\* gone through.
C3_UnknownKeyLeftAlone ==
    Walked =>
        \A i \in 1..NFields :
            LET f == call.config.pairs[i]
            IN  (IsStr(f[2]) /\ ~InTable(f[1])) =>
                    /\ out.config.pairs[i] = f
                    /\ ~RaisedAt(i)
                    /\ (out.reached >= i /\ i < NFields => out.reached > i)
                    /\ (out.raised = NoError => out.reached = NFields)

\* a record whose first field is a string under an unknown key and whose second
\* field was resolved after it
C3_Witness ==
    /\ Walked /\ pc = "pass1" /\ NFields = 2 /\ out.raised = NoError
    /\ call.config.pairs[1] = <<Str("duration"), Str(ItemName)>>
    /\ out.config.pairs[1] = <<Str("duration"), Str(ItemName)>>
    /\ call.config.pairs[2] = <<Str("wtiv"), Str(ItemName)>>
    /\ IsDict(out.config.pairs[2][2])

\* C4: a dictionary field whose name contains an entry of additional_keys holds
\* the recursively walked dictionary and the walk does not fail on it (here: even
\* when the nested walk itself returns normally); a dictionary field whose name
\* contains none is left as it was.
C4_SelectiveRecursion ==
    Walked /\ pc = "pass1" =>
        \A i \in 1..NFields :
            LET f == call.config.pairs[i]
                nested == extract_library_data(DATA_LIBRARY, fs, f[2], <<>>)
            IN  IsDict(f[2]) =>
                    IF Matched(f[1])
                    THEN (out.reached >= i /\ nested.raised = NoError) =>
                            /\ out.config.pairs[i][2] = nested.config
                            /\ ~RaisedAt(i)
                    ELSE out.config.pairs[i] = f

RECURSIVE OnlyNonStrings(_, _)
\* every value the pass put in place of another is not a string
OnlyNonStrings(before, after) ==
    \A i \in 1..Len(before.pairs) :
        LET b == before.pairs[i][2]
            a == after.pairs[i][2]
        IN  \/ a = b
            \/ ~IsStr(a) /\ (IsDict(b) => IsDict(a) /\ Len(a.pairs) = Len(b.pairs)
                                          /\ OnlyNonStrings(b, a))

\* C5: when the first pass completed and put only non-string values in place, the
\* record after a second pass with the same additional_keys equals the record
\* after the first.
C5_Idempotent ==
    (pc = "pass2" /\ OnlyNonStrings(prev.call.config, prev.out.config)) =>
        PyEq(out.config, call.config)

\* C7: after extract_library_data with the library root set, the field names are
\* those of the record handed in; a value that is neither a string nor a
\* dictionary matched for recursion is the original one; and every string field
\* the walk went through whose name is a key of the table and whose file is in
\* the active or the default root holds that file's content (all of them when the
\* call returns).
C7_Frame ==
    Walked /\ pc = "pass1" =>
        /\ Len(out.config.pairs) = NFields
        /\ out.raised = NoError => out.reached = NFields
        /\ \A i \in 1..NFields :
            LET f == call.config.pairs[i]
                g == out.config.pairs[i]
                root == RootHolding(f[1].s, f[2].s \o ".yaml")
            IN  /\ g[1] = f[1]
                /\ (~IsStr(f[2]) /\ ~(IsDict(f[2]) /\ Matched(f[1]))) => g[2] = f[2]
                /\ (/\ IsStr(f[2]) /\ InTable(f[1]) /\ root # Unset
                    /\ out.reached >= i) =>
                        PyEq(g[2], FileContent(root, PATH_LIBRARY[f[1].s]))

\* the end-to-end scenario: the vessel is only in the default library
C7_Witness ==
    /\ pc = "pass1" /\ DATA_LIBRARY = UserLibrary /\ fs # << >>
    /\ \A p \in DOMAIN fs : StartsWith(p, default_library)
    /\ call.config = DictV(<< <<Str("wtiv"), Str(ItemName)>>, <<Str("duration"), IntV(30)>> >>)
    /\ out.raised = NoError
    /\ out.config = DictV(<< <<Str("wtiv"), DictV(<< <<Str("max_waveheight"), FloatV(25, -1)>> >>)>>,
                             <<Str("duration"), IntV(30)>> >>)
\* ------------------------------------------------------- the export machine
\* the characters of the exported strings: a digit, the exponent letter, the
\* point, the sign, and a plain letter
Alphabet == {"1", "e", ".", "-", "a"}

RECURSIVE StringsOfLen(_)
StringsOfLen(n) ==
    IF n = 0 THEN {""} ELSE {s \o c : s \in StringsOfLen(n - 1), c \in Alphabet}

Strings == UNION {StringsOfLen(n) : n \in 0..MaxStrLen}

Scalars ==
    {Str(s) : s \in Strings}
        \cup {IntV(1), IntV(30), FloatV(25, -1), BoolV(TRUE), NoneV}

\* what a sequence or a mapping holds
Elems == {Str("a"), Str("1e1"), IntV(1), TupleV(<<IntV(1)>>)}

RECURSIVE SeqsOfLen(_)
SeqsOfLen(n) ==
    IF n = 0 THEN {<<>>} ELSE {Append(q, e) : q \in SeqsOfLen(n - 1), e \in Elems}

ItemSeqs == UNION {SeqsOfLen(n) : n \in 0..MaxSeqLen}

Mappings ==
    {DictV(<< <<k, v>> >>) : k \in {Str("a"), Str("1e1"), TupleV(<<IntV(1)>>)},
                             v \in Elems \cup {ListV(<<Str("a")>>)}}
        \cup {DictV(<<>>), NestedRecord}

Tables == {ListV(<<ListV(<<Str("a"), Str("b c")>>), ListV(<<IntV(1), Str("")>>)>>)}

ExportData ==
    Scalars \cup {ListV(q) : q \in ItemSeqs} \cup {TupleV(q) : q \in ItemSeqs}
        \cup Mappings \cup Tables

\* the answers typed at the prompt: invalid ones, then a valid one
Valid == {"y", "n", "Y"}
Invalid == {"x"}
AnswersOfLen(n) ==
    {[i \in 1..n |-> IF i = n THEN v ELSE w] : v \in Valid, w \in Invalid}
Answers == UNION {AnswersOfLen(n) : n \in 1..MaxAnswers}

LibraryDirs == LibraryRoots \cup {JoinPath(sl[1], sl[2]) : sl \in FileSlots}

ExportInit ==
    /\ DATA_LIBRARY \in {Unset, UserLibrary}
    /\ fs \in {f \in FileSystems : \A p \in DOMAIN f : StartsWith(p, UserLibrary)}
    /\ dirs \in {LibraryDirs, LibraryRoots}
    /\ pc = "idle"
    /\ call = None
    /\ out = None
    /\ prev = None

\* a call of _get_yes_no_response
GetYesNoResponse(answers) ==
    /\ pc = "idle"
    /\ pc' = "asked"
    /\ call' = [op |-> "_get_yes_no_response", answers |-> answers]
    /\ out' = _get_yes_no_response(answers, 1)
    /\ UNCHANGED <<DATA_LIBRARY, fs, dirs, prev>>

\* a call of export_library_specs; nothing is typed when nothing is asked, and
\* the input may end before anything is typed
ExportLibrarySpecs(key, filename, data, file_ext, answers) ==
    LET r == export_library_specs(DATA_LIBRARY, fs, dirs, key, filename, data, file_ext,
                                  answers)
        existed == /\ key \in DOMAIN PATH_LIBRARY
                   /\ DATA_LIBRARY # Unset
                   /\ is_file(fs, JoinPath(JoinPath(DATA_LIBRARY, PATH_LIBRARY[key]),
                                           filename \o "." \o file_ext))
    IN  /\ pc = "idle"
        /\ existed \/ answers = <<>>
        /\ pc' = "exported"
        /\ call' = [op |-> "export_library_specs", key |-> key, filename |-> filename,
                    data |-> data, file_ext |-> file_ext, answers |-> answers,
                    before |-> fs, existed |-> existed]
        /\ fs' = r.files
        /\ out' = [raised |-> r.raised, written |-> r.written, asked |-> r.asked]
        /\ UNCHANGED <<DATA_LIBRARY, dirs, prev>>

\* extract_library_specs of what was just exported
ExtractExported ==
    /\ pc = "exported"
    /\ pc' = "readback"
    /\ prev' = [call |-> call, out |-> out]
    /\ call' = [op |-> "extract_library_specs", key |-> call.key,
                filename |-> call.filename, file_type |-> call.file_ext]
    /\ out' = [ret |-> extract_library_specs(DATA_LIBRARY, fs, Str(call.key),
                                             Str(call.filename), call.file_ext)]
    /\ UNCHANGED <<DATA_LIBRARY, fs, dirs>>

\* the calls are made one at a time, from the idle state
ExportNext ==
    \/ pc = "idle" /\ \E answers \in Answers : GetYesNoResponse(answers)
    \/ pc = "idle" /\ \E key \in {"wtiv", "config", "boat"}, data \in ExportData,
                          file_ext \in {"yaml", "csv", "txt"},
                          answers \in Answers \cup {<<>>} :
                            ExportLibrarySpecs(key, ItemName, data, file_ext, answers)
    \/ ExtractExported

SpecExport == ExportInit /\ [][ExportNext]_vars

\* --------------------------------------------------- the initialising machine
Preset == "/preset"
LibraryPaths == {NoPath, default_library, UserLibrary, "lib", LinkPath, "/nowhere"}

InitInit ==
    /\ DATA_LIBRARY \in {Unset, Preset}
    /\ fs = <<>>
    /\ dirs \in SUBSET LibraryRoots
    /\ pc = "idle"
    /\ call = None
    /\ out = None
    /\ prev = [established |-> DATA_LIBRARY, calls |-> 0]

\* a call of initialize_library; `established` remembers the first value the
\* variable had
InitializeLibrary(library_path) ==
    LET r == initialize_library(DATA_LIBRARY, dirs, library_path)
    IN  /\ prev.calls < MaxCalls
        /\ pc' = "initialized"
        /\ call' = [op |-> "initialize_library", library_path |-> library_path,
                    before |-> DATA_LIBRARY]
        /\ DATA_LIBRARY' = r.env
        /\ out' = [raised |-> r.raised]
        /\ prev' = [established |-> IF prev.established = Unset THEN r.env
                                    ELSE prev.established,
                    calls |-> prev.calls + 1]
        /\ UNCHANGED <<fs, dirs>>

InitNext == \E library_path \in LibraryPaths : InitializeLibrary(library_path)

SpecInit == InitInit /\ [][InitNext]_vars

\* ------------------------------------------------- claims about the export
LastAnswer(answers) == Lower(answers[Len(answers)])

\* C6: a value exported as yaml under a key of the table and a filename, then
\* extracted under the same key and filename, comes back equal to what was
\* exported, a tuple as a tuple and a list as a list.
C6_RoundTrip ==
    (pc = "readback" /\ prev.call.file_ext = "yaml" /\ prev.out.written)
        => (~IsError(out.ret) /\ PyEq(out.ret, prev.call.data))

\* C8: when the file to export to already exists and the answer at the prompt
\* is no, the export is cancelled: the files are what they were, nothing else
\* is written, and the call returns without raising.
C8_ExportCancelled ==
    (pc = "exported" /\ call.existed /\ call.answers # <<>>
        /\ LastAnswer(call.answers) = "n")
        => (fs = call.before /\ out.raised = NoError /\ ~out.written)

\* an export of other data onto an existing file, declined after an invalid answer
C8_Witness ==
    /\ pc = "exported"
    /\ call.existed
    /\ call.answers = <<"x", "n">>
    /\ call.file_ext = "yaml"
    /\ call.data = Str("1e1")
    /\ fs = call.before
    /\ ~out.written

\* C10: after zero or more invalid answers and then a valid one,
\* _get_yes_no_response returns True exactly when that valid answer is yes.
C10_ValidAnswerDecides ==
    pc = "asked"
        => (out.raised = NoError /\ out.ret = (LastAnswer(call.answers) = "y"))

\* ----------------------------------------- claims about the initialisation
\* C9: initialize_library sets DATA_LIBRARY at most once: a call made while it
\* is set leaves it as it is and raises nothing whatever the path; a call made
\* while it is unset with a path that is not an existing directory raises
\* ValueError and leaves it unset; and it always holds the value it first had.
C9_SetOnce ==
    [][/\ DATA_LIBRARY # Unset
           => (DATA_LIBRARY' = DATA_LIBRARY /\ out'.raised = NoError)
       /\ (/\ DATA_LIBRARY = Unset
           /\ Resolve(IF call'.library_path = NoPath THEN default_library
                      ELSE call'.library_path) \notin dirs)
           => (DATA_LIBRARY' = Unset /\ out'.raised = PyError("ValueError"))
       /\ prev'.established # Unset => DATA_LIBRARY' = prev'.established]_vars

\* the variable set by a first call, then a call with another existing
\* directory and one with a path that is no directory, both changing nothing
C9_Witness ==
    /\ pc = "initialized"
    /\ prev.calls = MaxCalls
    /\ DATA_LIBRARY = default_library
    /\ call.before = default_library
    /\ call.library_path = "/nowhere"
    /\ UserLibrary \in dirs
    /\ out.raised = NoError

====
